---- MODULE Spec2Model ----
(***************************************************************************)
(* A model of @whi/cf-do-base: BaseDurableObject (src/src/index.ts and its *)
(* router-options variant src/unnamed/part_003), the platform base class   *)
(* it extends (tests/__mocks__/cloudflare-workers.ts), and the test        *)
(* fixture TestDurableObject with its three route handlers (README.md      *)
(* lines 246-415), driven by the host: construction, fetch, dispatch.      *)
(***************************************************************************)
EXTENDS Integers, Sequences, FiniteSets, TLC

(* ------------------------------ bounds --------------------------------- *)

\* fetch calls the host delivers in one run
MaxFetches == 3
\* fetch calls the host makes in one run when it does not await the earlier ones
MaxCalls == 2
\* activations of one identity in one run: the first and those after an eviction
MaxActivations == 2

(* --------------------------- JavaScript values -------------------------- *)

Undefined == [t |-> "undefined", n |-> 0, s |-> ""]
Null == [t |-> "null", n |-> 0, s |-> ""]
Num(i) == [t |-> "number", n |-> i, s |-> ""]
Str(x) == [t |-> "string", n |-> 0, s |-> x]

\* ToBoolean: undefined, null, 0 and '' are falsy
Truthy(v) ==
    CASE v.t = "number" -> v.n # 0
      [] v.t = "string" -> v.s # ""
      [] OTHER -> FALSE

\* a || b
Or(a, b) == IF Truthy(a) THEN a ELSE b

\* a ?? b
Nullish(a, b) == IF a.t \in {"undefined", "null"} THEN b ELSE a

JsToString(v) ==
    CASE v.t = "number" -> ToString(v.n)
      [] v.t = "string" -> v.s
      [] v.t = "null" -> "null"
      [] OTHER -> "undefined"

\* a + b: numeric addition of two numbers, string concatenation otherwise
\* (the handlers only ever add a number to a number or to a string)
Plus(a, b) ==
    IF a.t = "number" /\ b.t = "number"
    THEN Num(a.n + b.n)
    ELSE Str(JsToString(a) \o JsToString(b))

(* ------------------------------ inputs ---------------------------------- *)

\* identities the host addresses (ctx.id.toString())
Ids == {"id1", "id2"}
\* unit slots: slot u holds the activation the host creates for identity UnitId(u)
Units == {1, 2}
UnitId(u) == IF u = 1 THEN "id1" ELSE "id2"
\* environment records, told apart by LOG_LEVEL
Envs == {"fatal", "debug"}
\* the optional third constructor argument
Names == {Undefined, Null, Str(""), Str("custom-name"), Str("unnamed")}

\* the optional fourth constructor argument: omitted, an argument array
\* (Parameters<typeof Router>), or an options record as the README passes it
CfgOmitted == [t |-> "undefined", items |-> <<>>]
CfgArray(items) == [t |-> "array", items |-> items]
CfgObject(o) == [t |-> "object", items |-> <<o>>]
Cfgs == {CfgOmitted, CfgArray(<<>>), CfgArray(<<"base:/api">>), CfgObject("base:/api/v1")}

NoCtx == ""
NoEnv == ""
NoRouter == 0
NoFault == ""

VARIABLES
    variant,    \* which build of the base class is deployed: "args" | "options"
    units,      \* unit slot -> the instance (its fields, constructor arguments)
    routers,    \* the router objects allocated so far; a reference is an index
    storage,    \* identity -> key -> stored value (Undefined: absent)
    call,       \* the fetch call in progress, or the last one completed
    fetches,    \* fetch calls started so far
    lastPost,   \* history: identity -> the count the last POST /count answered (0: none yet)
    resets,     \* history: identity -> DELETE /count served since that POST
    putCount,   \* history: identity -> a PUT /state/count was served since the last
                \*          DELETE /count (or since creation)
    lastPut,    \* history: identity -> key -> the value of the last PUT /state/<key>
                \*          served (Undefined: none yet)
    calls,      \* the fetch calls in progress together, in the order they were made
    dispatches  \* router.handle calls started so far

vars == <<variant, units, routers, storage, call, fetches, lastPost, resets, putCount,
          lastPut, calls, dispatches>>

(* ------------------------------ construction ---------------------------- *)

\* An instance before any constructor body has run. The arg* fields record the
\* arguments of the constructor call; the others are the instance's own fields.
NewObject(class, ctx, env, name, cfg) ==
    [pc |-> "none", class |-> class,
     argCtx |-> ctx, argEnv |-> env, argName |-> name, argCfg |-> cfg,
     ctx |-> NoCtx, env |-> NoEnv, name |-> Undefined, router |-> NoRouter,
     events |-> <<>>, fault |-> NoFault]

NoObject == NewObject("none", NoCtx, NoEnv, Undefined, CfgOmitted)

NoStub == [kind |-> "none", status |-> 0, tag |-> "", count |-> Undefined,
           key |-> "", value |-> Undefined, id |-> "", fault |-> NoFault]

\* A constructor runs on st = [obj, heap]: the instance and the router objects.
Throw(st, f) == [st EXCEPT !.obj.fault = f]

\* DurableObject.constructor: this.ctx = ctx; this.env = env
PlatformCtor(st, ctx, env) ==
    [st EXCEPT !.obj.ctx = ctx, !.obj.env = env,
               !.obj.events = Append(@, "platform")]

\* new DurableObjectRouter(ctx, env, name, ...extra): a fresh router, no routes
RouterCtor(ctx, env, name, extra) ==
    [ctx |-> ctx, env |-> env, name |-> name, extra |-> extra,
     routes |-> <<>>, log |-> <<>>, stub |-> NoStub]

\* faulty variant: every unit attaches the first router ever built
AttachRouterShared(st, r) ==
    IF st.heap = <<>>
    THEN [st EXCEPT !.heap = Append(@, r), !.obj.router = 1,
                    !.obj.events = Append(@, "router")]
    ELSE [st EXCEPT !.obj.router = 1, !.obj.events = Append(@, "router")]

\* this.router = new DurableObjectRouter(...)
AttachRouter(st, r) ==
    [st EXCEPT !.heap = Append(@, r),
               !.obj.router = Len(st.heap) + 1,
               !.obj.events = Append(@, "router")]

\* faulty variant: name || 'unnamed'
ResolveNameOr(name) == Or(name, Str("unnamed"))

\* name ?? 'unnamed'
ResolveName(name) == Nullish(name, Str("unnamed"))

\* faulty variant: the router is given an environment of the constructor's own
BaseCtorArgsOwnEnv(st, ctx, env, name, cfg) ==
    LET s1 == PlatformCtor(st, ctx, env)
    IN  AttachRouter(s1, RouterCtor(s1.obj.ctx, "fatal", ResolveName(name), <<>>))

\* faulty variant: the router is built twice
BaseCtorArgsTwice(st, ctx, env, name, cfg) ==
    LET s1 == PlatformCtor(st, ctx, env)
        r == RouterCtor(s1.obj.ctx, s1.obj.env, ResolveName(name), <<>>)
    IN  AttachRouter(AttachRouter(s1, r), r)

\* ...(router_args ?? []): each element of the array is one more argument
Spread(cfg) == [i \in 1..Len(cfg.items) |-> CfgObject(cfg.items[i])]

\* index.ts: super(ctx, env); this.router = new DurableObjectRouter(this.ctx,
\* this.env, name ?? 'unnamed', ...(router_args ?? [])). Spreading a value that
\* is not iterable (an options record) raises a TypeError before the router is built.
BaseCtorArgs(st, ctx, env, name, cfg) ==
    LET s1 == PlatformCtor(st, ctx, env)
        s2 == [s1 EXCEPT !.obj.name = name]
    IN  IF cfg.t = "object"
        THEN Throw(s2, "TypeError")
        ELSE AttachRouter(s2, RouterCtor(s2.obj.ctx, s2.obj.env,
                                         ResolveName(name), Spread(cfg)))

\* faulty variant: the message says 'unnamed' whatever the router was named
LogTraceUnnamed(st, name) ==
    [st EXCEPT !.heap[st.obj.router].log =
                   Append(@, [msg |-> "Durable Object initialized",
                              id |-> st.obj.ctx, name |-> Str("unnamed")]),
               !.obj.events = Append(@, "trace")]

\* this.router.log.trace('Durable Object initialized', {id, name})
LogTrace(st, name) ==
    [st EXCEPT !.heap[st.obj.router].log =
                   Append(@, [msg |-> "Durable Object initialized",
                              id |-> st.obj.ctx, name |-> name]),
               !.obj.events = Append(@, "trace")]

\* faulty variant: the router is given the name as passed, without the default
BaseCtorOptionsRawName(st, ctx, env, name, cfg) ==
    LET s1 == PlatformCtor(st, ctx, env)
        s2 == [s1 EXCEPT !.obj.name = name]
        s3 == AttachRouter(s2, RouterCtor(s2.obj.ctx, s2.obj.env, name, <<cfg>>))
    IN  LogTrace(s3, ResolveName(name))

\* part_003: super(state, env); this.router = new DurableObjectRouter(this.ctx,
\* this.env, name ?? 'unnamed', options); this.router.log.trace(...)
BaseCtorOptions(st, ctx, env, name, cfg) ==
    LET s1 == PlatformCtor(st, ctx, env)
        s2 == [s1 EXCEPT !.obj.name = name]
        s3 == AttachRouter(s2, RouterCtor(s2.obj.ctx, s2.obj.env,
                                          ResolveName(name), <<cfg>>))
    IN  LogTrace(s3, ResolveName(name))

\* faulty variant: every unit is bound to the state handle of the first identity
BaseCtorFirstIdentity(st, ctx, env, name, cfg) ==
    IF variant = "args"
    THEN BaseCtorArgs(st, "id1", env, name, cfg)
    ELSE BaseCtorOptions(st, "id1", env, name, cfg)

\* BaseDurableObject.constructor of the deployed build
BaseCtor(st, ctx, env, name, cfg) ==
    IF variant = "args"
    THEN BaseCtorArgs(st, ctx, env, name, cfg)
    ELSE BaseCtorOptions(st, ctx, env, name, cfg)

\* path patterns: a segment is a literal or a named parameter (':key')
Lit(x) == [param |-> FALSE, name |-> x]
Param(x) == [param |-> TRUE, name |-> x]
CountPattern == <<Lit("count")>>
StatePattern == <<Lit("state"), Param("key")>>
InfoPattern == <<Lit("info")>>

\* this.router.defineRouteHandler(pattern, Handler): needs this.router to exist
DefineRouteHandler(st, pattern, handler) ==
    IF st.obj.fault # NoFault THEN st
    ELSE IF st.obj.router = NoRouter THEN Throw(st, "TypeError")
    ELSE [st EXCEPT !.heap[st.obj.router].routes =
                        Append(@, [pattern |-> pattern, handler |-> handler]),
                    !.obj.events = Append(@, "route")]

\* faulty variant: the counter handler is registered under '/info' too
TestCtorSwapped(st, ctx, env) ==
    LET s1 == BaseCtor(st, ctx, env, Str("test-do"), CfgOmitted)
        s2 == DefineRouteHandler(s1, CountPattern, "CounterHandler")
        s3 == DefineRouteHandler(s2, StatePattern, "StateHandler")
    IN  DefineRouteHandler(s3, InfoPattern, "CounterHandler")

\* TestDurableObject.constructor: super(ctx, env, 'test-do'), then three routes
TestCtor(st, ctx, env) ==
    LET s1 == BaseCtor(st, ctx, env, Str("test-do"), CfgOmitted)
        s2 == DefineRouteHandler(s1, CountPattern, "CounterHandler")
        s3 == DefineRouteHandler(s2, StatePattern, "StateHandler")
    IN  DefineRouteHandler(s3, InfoPattern, "InfoHandler")

\* `new` hands the instance to the host once the constructor has returned,
\* or the constructor's fault propagates to the caller.
Finish(st) ==
    [st EXCEPT !.obj.pc = IF st.obj.fault = NoFault THEN "ready" ELSE "failed"]

(* ------------------------------- requests ------------------------------- *)

\* request.json() rejects for a body that is not JSON (here: no body)
NoBody == [json |-> FALSE, increment |-> Undefined, value |-> Undefined]
IncBody(v) == [json |-> TRUE, increment |-> v, value |-> Undefined]
ValBody(v) == [json |-> TRUE, increment |-> Undefined, value |-> v]

Req(m, p, b) == [method |-> m, path |-> p, body |-> b]

CountPath == <<"count">>
InfoPath == <<"info">>
UnknownPath == <<"unknown-route">>
StatePath(k) == <<"state", k>>
\* storage keys in play: the counter's own key and one more
Keys == {"count", "k"}
Increments == {Undefined, Num(0), Num(1), Num(2)}
Values == {Str(""), Str("v")}

Requests ==
    {Req("GET", p, NoBody) : p \in {CountPath, InfoPath, UnknownPath}}
    \cup {Req("GET", StatePath(k), NoBody) : k \in Keys}
    \cup {Req("POST", CountPath, IncBody(i)) : i \in Increments}
    \cup {Req("POST", p, NoBody) : p \in {CountPath, InfoPath}}
    \cup {Req("PUT", StatePath(k), ValBody(v)) : k \in Keys, v \in Values}
    \cup {Req("PUT", StatePath("k"), NoBody)}
    \cup {Req("DELETE", p, NoBody) : p \in {CountPath, UnknownPath}}

(* ------------------------------- responses ------------------------------ *)

Response(status, tag, count, key, value, id) ==
    [kind |-> "response", status |-> status, tag |-> tag, count |-> count,
     key |-> key, value |-> value, id |-> id, fault |-> NoFault]
Fault(f) ==
    [kind |-> "fault", status |-> 0, tag |-> "", count |-> Undefined,
     key |-> "", value |-> Undefined, id |-> "", fault |-> f]
ErrorResponse(status) == Response(status, "error", Undefined, "", Undefined, "")

(* ------------------------------- handlers ------------------------------- *)

\* A handler method either returns a payload (answered with status 200) or throws;
\* http is the status of a thrown HttpError, 0 for any other error.
Returned(payload, store) ==
    [threw |-> FALSE, http |-> 0, payload |-> payload, store |-> store]
Threw(http, store) ==
    [threw |-> TRUE, http |-> http, payload |-> NoStub, store |-> store]

\* faulty variant: the read stores the default it falls back to
CounterGetInitialises(req, key, store, id) ==
    LET count == Or(store["count"], Num(0))
    IN  Returned(Response(200, "count", count, "", Undefined, ""),
                 [store EXCEPT !["count"] = count])

\* CounterHandler.get: (await storage.get('count')) || 0
CounterGet(req, key, store, id) ==
    Returned(Response(200, "count", Or(store["count"], Num(0)), "", Undefined, ""),
             store)

\* faulty variant: the increment overwrites the count
CounterPostOverwrites(req, key, store, id) ==
    IF ~req.body.json THEN Threw(0, store)
    ELSE LET newCount == Or(req.body.increment, Num(1))
         IN  Returned(Response(200, "count", newCount, "", Undefined, ""),
                      [store EXCEPT !["count"] = newCount])

\* faulty variant: the new count is returned but never put
CounterPostForgetsPut(req, key, store, id) ==
    IF ~req.body.json THEN Threw(0, store)
    ELSE LET currentCount == Or(store["count"], Num(0))
             newCount == Plus(currentCount, Or(req.body.increment, Num(1)))
         IN  Returned(Response(200, "count", newCount, "", Undefined, ""), store)

\* faulty variant: body.increment ?? 1, so an increment of 0 adds 0
CounterPostAddsZero(req, key, store, id) ==
    IF ~req.body.json THEN Threw(0, store)
    ELSE LET currentCount == Or(store["count"], Num(0))
             newCount == Plus(currentCount, Nullish(req.body.increment, Num(1)))
         IN  Returned(Response(200, "count", newCount, "", Undefined, ""),
                      [store EXCEPT !["count"] = newCount])

\* CounterHandler.post: currentCount + (body.increment || 1), stored and returned
CounterPost(req, key, store, id) ==
    IF ~req.body.json THEN Threw(0, store)
    ELSE LET currentCount == Or(store["count"], Num(0))
             newCount == Plus(currentCount, Or(req.body.increment, Num(1)))
         IN  Returned(Response(200, "count", newCount, "", Undefined, ""),
                      [store EXCEPT !["count"] = newCount])

\* faulty variant: the stored value survives the DELETE
CounterDeleteKeeps(req, key, store, id) ==
    Returned(Response(200, "reset", Num(0), "", Undefined, ""), store)

\* faulty variant: the reset clears the whole storage (storage.deleteAll())
CounterDeleteAll(req, key, store, id) ==
    Returned(Response(200, "reset", Num(0), "", Undefined, ""),
             [k \in DOMAIN store |-> Undefined])

\* CounterHandler.delete: storage.delete('count'); { count: 0, reset: true }
CounterDelete(req, key, store, id) ==
    Returned(Response(200, "reset", Num(0), "", Undefined, ""),
             [store EXCEPT !["count"] = Undefined])

\* StateHandler.get: { key, value: value || null }
StateGet(req, key, store, id) ==
    IF key = "" THEN Threw(400, store)
    ELSE Returned(Response(200, "state", Undefined, key, Or(store[key], Null), ""),
                  store)

\* faulty variant: the PUT answers stored: true without storing
StatePutForgets(req, key, store, id) ==
    IF key = "" THEN Threw(400, store)
    ELSE IF ~req.body.json THEN Threw(0, store)
    ELSE Returned(Response(200, "stored", Undefined, key, req.body.value, ""), store)

\* StateHandler.put: storage.put(key, body.value); { key, value, stored: true }
StatePut(req, key, store, id) ==
    IF key = "" THEN Threw(400, store)
    ELSE IF ~req.body.json THEN Threw(0, store)
    ELSE Returned(Response(200, "stored", Undefined, key, req.body.value, ""),
                  [store EXCEPT ![key] = req.body.value])

\* InfoHandler.get: { id: ctx.id.toString(), name: 'Test Durable Object' }
InfoGet(req, key, store, id) ==
    Returned(Response(200, "info", Undefined, "", Str("Test Durable Object"), id),
             store)

\* the HTTP methods a handler class implements
HandlerMethods(h) ==
    CASE h = "CounterHandler" -> {"GET", "POST", "DELETE"}
      [] h = "StateHandler" -> {"GET", "PUT"}
      [] h = "InfoHandler" -> {"GET"}
      [] OTHER -> {}

Invoke(h, req, key, store, id) ==
    CASE h = "CounterHandler" /\ req.method = "GET" -> CounterGet(req, key, store, id)
      [] h = "CounterHandler" /\ req.method = "POST" -> CounterPost(req, key, store, id)
      [] h = "CounterHandler" /\ req.method = "DELETE" -> CounterDelete(req, key, store, id)
      [] h = "StateHandler" /\ req.method = "GET" -> StateGet(req, key, store, id)
      [] h = "StateHandler" /\ req.method = "PUT" -> StatePut(req, key, store, id)
      [] OTHER -> InfoGet(req, key, store, id)

(* -------------------------------- router -------------------------------- *)

\* a path matches a pattern segment by segment; a parameter matches any segment
Match(pattern, path) ==
    /\ Len(pattern) = Len(path)
    /\ \A i \in 1..Len(pattern) : pattern[i].param \/ pattern[i].name = path[i]

\* params.key: the segment under the pattern's parameter, '' when it has none
ParamKey(pattern, path) ==
    IF \E i \in 1..Len(pattern) : pattern[i].param
    THEN path[CHOOSE i \in 1..Len(pattern) : pattern[i].param]
    ELSE ""

\* the first registered route whose pattern matches, 0 when none does
FirstMatch(routes, path) ==
    IF \E i \in 1..Len(routes) : Match(routes[i].pattern, path)
    THEN CHOOSE i \in 1..Len(routes) :
             /\ Match(routes[i].pattern, path)
             /\ \A j \in 1..(i - 1) : ~Match(routes[j].pattern, path)
    ELSE 0

\* what the router answers when no route matches (integration test: 404)
NotFound == ErrorResponse(404)
\* statuses the router may give a matched path whose handler lacks the method
NoMethodStatuses == {404, 405}
\* statuses the router may give an error that is not an HttpError
ErrorStatuses == {400, 500}

Outcome(o, store, reached) == [outcome |-> o, store |-> store, reached |-> reached]

\* router.handle(request) on a router bound to identity id with storage `store`:
\* every (outcome, storage after, handler reached) the dispatch may end with
HandleOutcomes(router, req, store) ==
    IF router.stub # NoStub THEN {Outcome(router.stub, store, "")}
    ELSE LET i == FirstMatch(router.routes, req.path) IN
         IF i = 0 THEN {Outcome(NotFound, store, "")}
         ELSE LET h == router.routes[i].handler IN
              IF req.method \notin HandlerMethods(h)
              THEN {Outcome(ErrorResponse(s), store, "") : s \in NoMethodStatuses}
              ELSE LET r == Invoke(h, req, ParamKey(router.routes[i].pattern, req.path),
                                   store, router.ctx)
                   IN  IF ~r.threw THEN {Outcome(r.payload, r.store, h)}
                       ELSE IF r.http # 0 THEN {Outcome(ErrorResponse(r.http), r.store, h)}
                       ELSE {Outcome(ErrorResponse(s), r.store, h) : s \in ErrorStatuses}

(* --------------------------------- fetch -------------------------------- *)

NoReq == Req("", <<>>, NoBody)
Idle == [pc |-> "idle", unit |-> 0, req |-> NoReq, passed |-> NoReq,
         reached |-> "", outcome |-> NoStub, result |-> NoStub]

\* faulty variants of fetch: what a fetch that meddles would do
FetchResultMasks404(handled) ==
    IF handled.status = 404 THEN ErrorResponse(500) ELSE handled
FetchResultThrowsOn404(handled) ==
    IF handled.status = 404 THEN Fault("NotFound") ELSE handled
FetchThisRenames(obj, request, handled) ==
    IF handled.kind = "fault" THEN [obj EXCEPT !.name = Str(handled.fault)] ELSE obj

\* faulty variant: fetch catches a fault of handle and answers 500 in its place
FetchResultCatches(handled) ==
    IF handled.kind = "fault" THEN ErrorResponse(500) ELSE handled

\* fetch(request): the argument of this.router.handle(...)
FetchArgument(request) == request

\* fetch(request): return <what this.router.handle(request) settled with>
FetchResult(handled) == handled

\* faulty variant: fetch keeps a record of the requests it served in the instance
FetchThisRecords(obj, request, handled) ==
    [obj EXCEPT !.events = Append(@, request.method)]

\* fetch(request) assigns to no field of the instance
FetchThis(obj, request, handled) == obj

\* the router a unit's fetch dispatches to: this.router
RouterOf(u) == routers[units[u].router]

(* -------------------------------- actions ------------------------------- *)

EmptyStore == [k \in Keys |-> Undefined]

Init ==
    /\ variant \in {"args", "options"}
    /\ units = [u \in Units |-> NoObject]
    /\ routers = <<>>
    /\ storage = [i \in Ids |-> EmptyStore]
    /\ call = Idle
    /\ fetches = 0
    /\ lastPost = [i \in Ids |-> Num(0)]
    /\ resets = [i \in Ids |-> 0]
    /\ putCount = [i \in Ids |-> FALSE]
    /\ lastPut = [i \in Ids |-> EmptyStore]
    /\ calls = <<>>
    /\ dispatches = 0

\* the host (or a test) runs `new BaseDurableObject(state, env, name, cfg)`
ConstructBase(u, env, name, cfg) ==
    /\ units[u].pc = "none"
    /\ LET st0 == [obj |-> NewObject("BaseDurableObject", UnitId(u), env, name, cfg),
                   heap |-> routers]
           st == Finish(BaseCtor(st0, UnitId(u), env, name, cfg))
       IN  /\ units' = [units EXCEPT ![u] = st.obj]
           /\ routers' = st.heap
    /\ UNCHANGED <<variant, storage, call, fetches, lastPost, resets, putCount,
                   lastPut, calls, dispatches>>

\* the host runs `new TestDurableObject(ctx, env)` for the identity of slot u
ConstructTest(u, env) ==
    /\ units[u].pc = "none"
    /\ LET st0 == [obj |-> NewObject("TestDurableObject", UnitId(u), env,
                                     Str("test-do"), CfgOmitted),
                   heap |-> routers]
           st == Finish(TestCtor(st0, UnitId(u), env))
       IN  /\ units' = [units EXCEPT ![u] = st.obj]
           /\ routers' = st.heap
    /\ UNCHANGED <<variant, storage, call, fetches, lastPost, resets, putCount,
                   lastPut, calls, dispatches>>

\* vi.spyOn(doInstance['router'], 'handle'): handle settles as the test says
SpyOnHandle(u, o) ==
    /\ units[u].pc = "ready"
    /\ call.pc \in {"idle", "returned"}
    /\ RouterOf(u).stub # o
    /\ routers' = [routers EXCEPT ![units[u].router].stub = o]
    /\ UNCHANGED <<variant, units, storage, call, fetches, lastPost, resets, putCount,
                   lastPut, calls, dispatches>>

\* the host delivers a request to a constructed unit, one at a time (units of
\* different identities share nothing, so their calls are taken one at a time too):
\* fetch(request) calls this.router.handle(request)
FetchStart(u, req) ==
    /\ units[u].pc = "ready"
    /\ call.pc \in {"idle", "returned"}
    /\ fetches < MaxFetches
    /\ call' = [Idle EXCEPT !.pc = "dispatched", !.unit = u, !.req = req,
                            !.passed = FetchArgument(req)]
    /\ fetches' = fetches + 1
    /\ dispatches' = dispatches + 1
    /\ UNCHANGED <<variant, units, routers, storage, lastPost, resets, putCount,
                   lastPut, calls>>

\* history of the counter as its clients saw it: which request was served
Served(req, o, method, path) ==
    /\ o.outcome.kind = "response"
    /\ o.outcome.status = 200
    /\ req.method = method
    /\ req.path = path

NextLastPost(req, o, prev) ==
    IF Served(req, o, "POST", CountPath) THEN o.outcome.count ELSE prev

NextResets(req, o, prev) ==
    IF Served(req, o, "POST", CountPath) THEN 0
    ELSE IF Served(req, o, "DELETE", CountPath) THEN prev + 1
    ELSE prev

NextPutCount(req, o, prev) ==
    IF Served(req, o, "DELETE", CountPath) THEN FALSE
    ELSE prev \/ Served(req, o, "PUT", StatePath("count"))

\* the value a served PUT /state/<key> stored, kept per key
NextLastPut(req, o, prev) ==
    IF /\ o.outcome.kind = "response"
       /\ o.outcome.status = 200
       /\ req.method = "PUT"
       /\ o.reached = "StateHandler"
    THEN [prev EXCEPT ![o.outcome.key] = o.outcome.value]
    ELSE prev

\* the router dispatches the request it was handed: route match, handler, storage
RouterHandle ==
    /\ call.pc = "dispatched"
    /\ LET r == RouterOf(call.unit)
           id == units[call.unit].argCtx
       IN  \E o \in HandleOutcomes(r, call.passed, storage[r.ctx]) :
               /\ storage' = [storage EXCEPT ![r.ctx] = o.store]
               /\ call' = [call EXCEPT !.pc = "handled", !.outcome = o.outcome,
                                       !.reached = o.reached]
               /\ lastPost' = [lastPost EXCEPT ![id] = NextLastPost(call.req, o, @)]
               /\ resets' = [resets EXCEPT ![id] = NextResets(call.req, o, @)]
               /\ putCount' = [putCount EXCEPT ![id] = NextPutCount(call.req, o, @)]
               /\ lastPut' = [lastPut EXCEPT ![id] = NextLastPut(call.req, o, @)]
    /\ UNCHANGED <<variant, units, routers, fetches, calls, dispatches>>

\* fetch settles with what handle settled with
FetchReturn ==
    /\ call.pc = "handled"
    /\ call' = [call EXCEPT !.pc = "returned", !.result = FetchResult(call.outcome)]
    /\ units' = [units EXCEPT ![call.unit] = FetchThis(@, call.req, call.outcome)]
    /\ UNCHANGED <<variant, routers, storage, fetches, lastPost, resets, putCount,
                   lastPut, calls, dispatches>>

\* the host evicts an idle unit: the instance and its router are dropped from memory
\* (the router object stays in the heap, unreachable), the storage stays
Evict(u) ==
    /\ units[u].pc = "ready"
    /\ call.pc \in {"idle", "returned"}
    /\ Len(routers) < MaxActivations
    /\ units' = [units EXCEPT ![u] = NoObject]
    /\ UNCHANGED <<variant, routers, storage, call, fetches, lastPost, resets, putCount,
                   lastPut, calls, dispatches>>

(* --------------------- fetch calls in progress together ------------------ *)

\* faulty variant: a fetch whose dispatch failed calls handle again
FetchRetriesOnError(handled) == handled.kind = "fault" \/ handled.status >= 500

\* fetch(request) has no catch and no loop: it calls handle once, whatever the outcome
FetchRetries(handled) == FALSE

\* the storage key a handler method puts or deletes when it returns, '' for none
HandlerWrites(h, method, key) ==
    CASE h = "CounterHandler" /\ method \in {"POST", "DELETE"} -> "count"
      [] h = "StateHandler" /\ method = "PUT" -> key
      [] OTHER -> ""

\* the handler's put/delete applied to the storage as it is when the write is made;
\* o is the dispatch outcome computed from the value the handler read earlier
ApplyWrite(current, router, req, o) ==
    LET i == FirstMatch(router.routes, req.path)
        k == IF i = 0 THEN ""
             ELSE HandlerWrites(o.reached, req.method,
                                ParamKey(router.routes[i].pattern, req.path))
    IN  IF k = "" \/ o.outcome.status # 200 THEN current
        ELSE [current EXCEPT ![k] = o.store[k]]

\* the host calls fetch(request) while earlier calls may still be pending: fetch
\* calls this.router.handle(request) at once (an async function runs to its first await)
StartFetch(u, req) ==
    /\ units[u].pc = "ready"
    /\ Len(calls) < MaxCalls
    /\ calls' = Append(calls,
                       [pc |-> "dispatched", unit |-> u, req |-> req,
                        passed |-> FetchArgument(req),
                        overlap |-> \E d \in 1..Len(calls) :
                                       calls[d].unit = u /\ calls[d].pc # "returned",
                        snap |-> EmptyStore, reached |-> "",
                        outcome |-> NoStub, result |-> NoStub])
    /\ fetches' = fetches + 1
    /\ dispatches' = dispatches + 1
    /\ UNCHANGED <<variant, units, routers, storage, call, lastPost, resets, putCount,
                   lastPut>>

\* the dispatch of call c runs up to the handler's storage read: await storage.get(...)
\* resolves with what the storage holds now
HandlerRead(c) ==
    /\ calls[c].pc = "dispatched"
    /\ calls' = [calls EXCEPT ![c].pc = "read",
                              ![c].snap = storage[RouterOf(calls[c].unit).ctx]]
    /\ UNCHANGED <<variant, units, routers, storage, call, fetches, lastPost, resets,
                   putCount, lastPut, dispatches>>

\* the dispatch of call c runs on from the value it read: the handler computes,
\* awaits its storage.put or storage.delete, returns, and handle settles
HandlerWrite(c) ==
    /\ calls[c].pc = "read"
    /\ LET r == RouterOf(calls[c].unit)
       IN  \E o \in HandleOutcomes(r, calls[c].passed, calls[c].snap) :
               /\ storage' = [storage EXCEPT
                                  ![r.ctx] = ApplyWrite(@, r, calls[c].passed, o)]
               /\ calls' = [calls EXCEPT ![c].pc = "handled",
                                         ![c].outcome = o.outcome,
                                         ![c].reached = o.reached]
    /\ UNCHANGED <<variant, units, routers, call, fetches, lastPost, resets, putCount,
                   lastPut, dispatches>>

\* the fetch of call c settles with what handle settled with
SettleFetch(c) ==
    /\ calls[c].pc = "handled"
    /\ IF FetchRetries(calls[c].outcome)
       THEN /\ calls' = [calls EXCEPT ![c].pc = "dispatched"]
            /\ dispatches' = dispatches + 1
       ELSE /\ calls' = [calls EXCEPT ![c].pc = "returned",
                                      ![c].result = FetchResult(calls[c].outcome)]
            /\ dispatches' = dispatches
    /\ units' = [units EXCEPT
                    ![calls[c].unit] = FetchThis(@, calls[c].req, calls[c].outcome)]
    /\ UNCHANGED <<variant, routers, storage, call, fetches, lastPost, resets, putCount,
                   lastPut>>

(* ----------------------------- specifications --------------------------- *)

\* the integration harness (tests/setup.ts): TestDurableObject units, LOG_LEVEL 'fatal'
Next ==
    \/ \E u \in Units : ConstructTest(u, "fatal")
    \/ \E u \in Units, req \in Requests : FetchStart(u, req)
    \/ RouterHandle
    \/ FetchReturn

Spec == Init /\ [][Next]_vars

\* stub outcomes a unit test may give router.handle
StubOutcomes ==
    {Response(200, "stub", Undefined, "", Str("test response"), ""),
     ErrorResponse(500), Fault("boom")}
UnitRequests == {Req("GET", <<"test">>, NoBody), Req("POST", CountPath, IncBody(Num(1)))}

\* the unit-test harness (base-durable-object.test.ts): one BaseDurableObject
\* under test, built from any arguments, its router's handle possibly stubbed
NextUnit ==
    \/ \E u \in Units, env \in Envs, name \in Names, cfg \in Cfgs :
           /\ \A v \in Units : units[v].pc = "none"
           /\ ConstructBase(u, env, name, cfg)
    \/ \E u \in Units, o \in StubOutcomes : SpyOnHandle(u, o)
    \/ \E u \in Units, req \in UnitRequests : FetchStart(u, req)
    \/ RouterHandle
    \/ FetchReturn

SpecUnit == Init /\ [][NextUnit]_vars

\* requests to the counter, among them one the handler rejects
ConcRequests ==
    {Req("POST", CountPath, IncBody(i)) : i \in {Undefined, Num(2)}}
    \cup {Req("POST", CountPath, NoBody), Req("GET", CountPath, NoBody),
          Req("DELETE", CountPath, NoBody)}

\* the identity the fixture's worker addresses: idFromName('test-instance')
WorkerUnit == 1

\* the fixture unit of the worker's identity, whose fetch calls the host makes without
\* awaiting the earlier ones
NextConc ==
    \/ ConstructTest(WorkerUnit, "fatal")
    \/ \E req \in ConcRequests : StartFetch(WorkerUnit, req)
    \/ \E c \in 1..Len(calls) : HandlerRead(c)
    \/ \E c \in 1..Len(calls) : HandlerWrite(c)
    \/ \E c \in 1..Len(calls) : SettleFetch(c)

SpecConc == Init /\ [][NextConc]_vars

\* the fixture unit of the worker's identity, evicted by the host between requests
\* and constructed again for the next one
NextEvict ==
    \/ ConstructTest(WorkerUnit, "fatal")
    \/ Evict(WorkerUnit)
    \/ \E req \in Requests : FetchStart(WorkerUnit, req)
    \/ RouterHandle
    \/ FetchReturn

SpecEvict == Init /\ [][NextEvict]_vars

\* requests to the counter of every kind of increment (absent, zero, positive,
\* negative), one with no JSON body, and a PUT to the counter's key
CounterRequests ==
    {Req("POST", CountPath, IncBody(i)) : i \in Increments \cup {Num(-1)}}
    \cup {Req("POST", CountPath, NoBody), Req("GET", CountPath, NoBody),
          Req("DELETE", CountPath, NoBody),
          Req("PUT", StatePath("count"), ValBody(Str("v")))}

\* the fixture unit of the worker's identity, its counter driven one request at a time
NextCounter ==
    \/ ConstructTest(WorkerUnit, "fatal")
    \/ \E req \in CounterRequests : FetchStart(WorkerUnit, req)
    \/ RouterHandle
    \/ FetchReturn

SpecCounter == Init /\ [][NextCounter]_vars

\* a base-class instance built with any name and configuration beside the fixture unit,
\* both then served requests
NextLog ==
    \/ \E env \in Envs, name \in Names, cfg \in Cfgs : ConstructBase(1, env, name, cfg)
    \/ ConstructTest(2, "fatal")
    \/ \E u \in Units, req \in UnitRequests : FetchStart(u, req)
    \/ RouterHandle
    \/ FetchReturn

SpecLog == Init /\ [][NextLog]_vars

(* -------------------------------- claims -------------------------------- *)

Ready(u) == units[u].pc = "ready"
Dispatched == call.pc \in {"dispatched", "handled", "returned"}
Handled == call.pc \in {"handled", "returned"}
\* the identity whose unit serves the current call
CallId == units[call.unit].argCtx

\* the handler the fixture registers for a path, '' for a path it has no route for
OwnHandler(path) ==
    IF path = CountPath THEN "CounterHandler"
    ELSE IF Len(path) = 2 /\ path[1] = "state" THEN "StateHandler"
    ELSE IF path = InfoPath THEN "InfoHandler"
    ELSE ""

\* C1: fetch(R) hands that same R to the router's handle and settles with exactly
\* what handle settled with, error responses included; it substitutes nothing.
C1_FetchDelegates ==
    /\ Dispatched => call.passed = call.req
    /\ call.pc = "returned" => call.result = call.outcome

\* a fetch of a POST that the router answered with an error response has returned it
C1_Witness ==
    /\ call.pc = "returned"
    /\ call.req = Req("POST", CountPath, NoBody)
    /\ call.result.kind = "response"
    /\ call.result.status \in ErrorStatuses

\* C2: construction from a state handle and an environment succeeds (with the name
\* and the configuration omitted, or given as a name and an argument array), and the
\* instance has a router, stores that very state handle and environment, and its
\* router was constructed with the same two.
C2_ConstructionBinds ==
    \A u \in Units :
        LET o == units[u] IN
        /\ (o.pc # "none" /\ o.argCfg.t # "object") => o.pc = "ready"
        /\ o.pc = "ready" =>
               /\ o.router # NoRouter
               /\ o.router \in 1..Len(routers)
               /\ o.ctx = o.argCtx
               /\ o.env = o.argEnv
               /\ routers[o.router].ctx = o.argCtx
               /\ routers[o.router].env = o.argEnv

\* a unit built from (state, env) alone, with the environment that is not the default
C2_Witness ==
    \E u \in Units :
        /\ Ready(u)
        /\ units[u].argEnv = "debug"
        /\ units[u].argName = Undefined
        /\ units[u].argCfg = CfgOmitted
        /\ routers[units[u].router].env = "debug"

IsNullish(v) == v.t \in {"undefined", "null"}

\* C3 as stated: the router's name is 'unnamed' if and only if no name was supplied,
\* and a supplied name, the empty string included, is the router's name.
C3_Original ==
    \A u \in Units :
        Ready(u) =>
            /\ routers[units[u].router].name = Str("unnamed") <=> IsNullish(units[u].argName)
            /\ ~IsNullish(units[u].argName) =>
                   routers[units[u].router].name = units[u].argName

\* C3, amended: the router's name is the supplied name whenever one is supplied, the
\* empty string included, and 'unnamed' when none is; so it is 'unnamed' exactly when
\* no name was supplied or the supplied name is itself 'unnamed'.
C3_ResolvedName ==
    \A u \in Units :
        Ready(u) =>
            /\ IsNullish(units[u].argName) =>
                   routers[units[u].router].name = Str("unnamed")
            /\ ~IsNullish(units[u].argName) =>
                   routers[units[u].router].name = units[u].argName
            /\ routers[units[u].router].name = Str("unnamed") <=>
                   (IsNullish(units[u].argName) \/ units[u].argName = Str("unnamed"))

\* a unit named with the empty string, whose router is named with the empty string
C3_Witness ==
    \E u \in Units :
        /\ Ready(u)
        /\ units[u].argName = Str("")
        /\ routers[units[u].router].name = Str("")

\* C4 as stated: every request to /count, /state/:key or /info reaches its own
\* handler and is answered 200, and no request reaches another path's handler.
C4_Original ==
    (Handled /\ units[call.unit].class = "TestDurableObject") =>
        /\ OwnHandler(call.req.path) # "" =>
               /\ call.reached = OwnHandler(call.req.path)
               /\ call.outcome.status = 200
        /\ call.reached # "" => call.reached = OwnHandler(call.req.path)

\* C4, amended: a request issued after construction whose path matches a route
\* registered in the subclass constructor, and whose method that route's handler
\* implements, reaches that handler; it is answered 200 whenever the handler returns,
\* that is unless it is a POST or PUT whose body is not JSON; and no request reaches
\* a handler registered for a different path.
C4_RoutesReachable ==
    (Handled /\ units[call.unit].class = "TestDurableObject") =>
        /\ ( /\ OwnHandler(call.req.path) # ""
             /\ call.req.method \in HandlerMethods(OwnHandler(call.req.path)) ) =>
               /\ call.reached = OwnHandler(call.req.path)
               /\ (call.req.body.json \/ call.req.method \in {"GET", "DELETE"}) =>
                      call.outcome.status = 200
        /\ call.reached # "" => call.reached = OwnHandler(call.req.path)

\* a GET /state/k has reached the state handler and returned 200
C4_Witness ==
    /\ call.pc = "returned"
    /\ call.req = Req("GET", StatePath("k"), NoBody)
    /\ call.reached = "StateHandler"
    /\ call.result.status = 200

\* C5: a request whose path matches no registered route settles with a 404 response,
\* whatever the storage holds; no fault reaches the host, the storage is untouched,
\* and the unit is still constructed with its routes, ready to serve the next request.
C5_UnknownRoute404 ==
    (Handled /\ OwnHandler(call.req.path) = "") =>
        /\ call.outcome.kind = "response"
        /\ call.outcome.status = 404
        /\ call.pc = "returned" =>
               /\ call.result.kind = "response"
               /\ call.result.status = 404
               /\ Ready(call.unit)
               /\ FirstMatch(RouterOf(call.unit).routes, CountPath) # 0
               /\ fetches < MaxFetches =>
                      ENABLED FetchStart(call.unit, Req("GET", CountPath, NoBody))

\* GET /unknown-route has returned 404 from a unit whose storage holds a count
C5_Witness ==
    /\ call.pc = "returned"
    /\ call.req = Req("GET", UnknownPath, NoBody)
    /\ call.result.status = 404
    /\ storage[CallId]["count"] = Num(2)

\* the count a GET /count is due per the history of the identity's counter requests:
\* what the last POST answered, 0 after a DELETE or when there was none
DueCount(id) == IF resets[id] > 0 THEN Num(0) ELSE lastPost[id]

\* the router serves a request to /count of the unit's identity
CountStep == call.pc = "dispatched" /\ call'.pc = "handled" /\ call.req.path = CountPath

PositiveIncrement(req) ==
    /\ req.method = "POST"
    /\ req.body.json
    /\ req.body.increment.t = "number"
    /\ req.body.increment.n > 0

\* a step of the counter as C6 describes it; noPut limits it to histories with no
\* PUT /state/count since the last DELETE /count (or since creation)
CounterStep(noPut) ==
    (CountStep /\ (noPut => ~putCount[CallId])) =>
        LET prev == DueCount(CallId) IN
        /\ call.req.method = "GET" =>
               /\ call'.outcome.status = 200
               /\ call'.outcome.count = prev
               /\ storage' = storage
        /\ PositiveIncrement(call.req) =>
               /\ prev.t = "number"
               /\ call'.outcome.status = 200
               /\ call'.outcome.count = Num(prev.n + call.req.body.increment.n)
               /\ storage'[CallId]["count"] = call'.outcome.count

\* C6 as stated: whatever requests the identity was sent, one at a time, a GET /count
\* answers the count of the most recent POST (0 if none since creation or the last
\* DELETE), and a POST with a positive increment answers and stores that count plus it.
C6_Original == [][CounterStep(FALSE)]_vars

\* C6, amended: the same, for every sequence of requests with no PUT /state/count
\* served since the last DELETE /count (or since creation).
C6_CounterPersistence == [][CounterStep(TRUE)]_vars

\* POST 1, POST 2, GET: the GET has returned 3
C6_Witness ==
    /\ call.pc = "returned"
    /\ call.req = Req("GET", CountPath, NoBody)
    /\ call.result.count = Num(3)
    /\ lastPost[CallId] = Num(3)
    /\ fetches = 3

\* a step of the counter as C7 describes it
ResetStep(noPut) ==
    CountStep =>
        /\ call.req.method = "DELETE" =>
               /\ call'.outcome = Response(200, "reset", Num(0), "", Undefined, "")
               /\ storage'[CallId]["count"] = Undefined
               /\ \A k \in Keys \ {"count"} : storage'[CallId][k] = storage[CallId][k]
               /\ (resets[CallId] > 0 /\ ~putCount[CallId]) => storage' = storage
        /\ ( /\ call.req.method = "GET"
             /\ resets[CallId] > 0
             /\ noPut => ~putCount[CallId] ) =>
               /\ call'.outcome.status = 200
               /\ call'.outcome.count = Num(0)

\* C7 as stated: DELETE /count clears the stored count and answers 200, count 0, reset
\* true; every GET /count after it with no POST in between answers 0; a second DELETE
\* answers the same and leaves the same storage.
C7_Original == [][ResetStep(FALSE)]_vars

\* C7, amended: the same, the GETs being those with no POST and no PUT /state/count
\* between the DELETE and them.
C7_DeleteResets == [][ResetStep(TRUE)]_vars

\* POST 2, DELETE, DELETE: the second DELETE has returned count 0, reset true, and
\* the count the POST stored is gone
C7_Witness ==
    /\ call.pc = "returned"
    /\ call.req = Req("DELETE", CountPath, NoBody)
    /\ call.result = Response(200, "reset", Num(0), "", Undefined, "")
    /\ lastPost[CallId] = Num(2)
    /\ resets[CallId] = 2
    /\ storage[CallId]["count"] = Undefined

Positions(e, x) == {i \in 1..Len(e) : e[i] = x}

\* C8: a constructed unit's constructor built the router exactly once, after the
\* platform constructor stored ctx and env and before every route registration; and a
\* request is dispatched only to a unit whose construction, registrations included,
\* has completed.
C8_RouterOnceBeforeRoutes ==
    /\ \A u \in Units :
           LET e == units[u].events IN
           Ready(u) =>
               /\ Cardinality(Positions(e, "router")) = 1
               /\ Cardinality(Positions(e, "platform")) = 1
               /\ \A i \in Positions(e, "router") :
                      /\ \A j \in Positions(e, "platform") : j < i
                      /\ \A j \in Positions(e, "route") : i < j
               /\ units[u].class = "TestDurableObject" =>
                      Cardinality(Positions(e, "route")) = 3
    /\ Dispatched =>
           /\ Ready(call.unit)
           /\ Len(RouterOf(call.unit).routes) =
                  Cardinality(Positions(units[call.unit].events, "route"))

\* a fixture unit, built platform, router, three routes, has served a request
C8_Witness ==
    /\ call.pc = "returned"
    /\ Ready(call.unit)
    /\ units[call.unit].events = <<"platform", "router", "route", "route", "route">>
    /\ Len(RouterOf(call.unit).routes) = 3

\* C9: no two units hold the same router; no step, the construction of another unit
\* included, changes the routes of a router a unit holds; and a unit's router is
\* never replaced or dropped while the unit exists.
C9_RouterOwned ==
    [][ /\ \A u, v \in Units :
               (u # v /\ units'[u].pc = "ready" /\ units'[v].pc = "ready") =>
                   units'[u].router # units'[v].router
        /\ \A u \in Units :
               Ready(u) =>
                   /\ units'[u].pc = "ready"
                   /\ units'[u].router = units[u].router
                   /\ routers'[units[u].router].routes = RouterOf(u).routes
                   /\ routers'[units[u].router].ctx = units[u].ctx ]_vars

\* two units, each with a router of its own holding its three routes
C9_Witness ==
    /\ \A u \in Units : Ready(u) /\ Len(RouterOf(u).routes) = 3
    /\ units[1].router # units[2].router
    /\ RouterOf(1).ctx = "id1"
    /\ RouterOf(2).ctx = "id2"

\* C10: once constructed a unit stays constructed with the same router reference,
\* state handle, environment and name, whatever its fetch calls do: succeed, return
\* an error response or raise a fault.
C10_FetchLeavesUnit ==
    [][ \A u \in Units :
            Ready(u) =>
                /\ units'[u].pc = "ready"
                /\ units'[u].router = units[u].router
                /\ units'[u].ctx = units[u].ctx
                /\ units'[u].env = units[u].env
                /\ units'[u].name = units[u].name ]_vars

\* a fetch has raised the fault its router's handle raised, on a named unit
C10_Witness ==
    /\ call.pc = "returned"
    /\ call.result = Fault("boom")
    /\ Ready(call.unit)
    /\ units[call.unit].name = Str("custom-name")

\* C11: when the router's handle raises or rejects with a fault F, the fetch fails with
\* that same F: it is not caught, rewrapped or replaced by a response; and when handle
\* returns an error response, the fetch returns that same response.
C11_FaultsPassThrough ==
    call.pc = "returned" =>
        /\ call.outcome.kind = "fault" =>
               /\ call.result.kind = "fault"
               /\ call.result.fault = call.outcome.fault
               /\ call.result.status = 0
        /\ (call.outcome.kind = "response" /\ call.outcome.status >= 400) =>
               /\ call.result.kind = "response"
               /\ call.result = call.outcome

\* handle rejected with 'boom' for a POST, and the fetch of that POST failed with 'boom'
C11_Witness ==
    /\ call.pc = "returned"
    /\ call.req = Req("POST", CountPath, IncBody(Num(1)))
    /\ call.outcome = Fault("boom")
    /\ call.result = Fault("boom")

\* C12: this layer never rejects a construction call: whatever the state handle, the
\* environment, the name (supplied or omitted) and the configuration (omitted, or the
\* options record the README passes), construction fails only with a fault raised by
\* the router's or the platform's constructor. Neither raises one here, so no
\* construction of the base class fails.
C12_NeverRejects ==
    \A u \in Units :
        units[u].class = "BaseDurableObject" =>
            /\ units[u].pc # "failed"
            /\ units[u].fault = NoFault

\* the arguments the router's constructor receives after the name when cfg is given
\* as the fourth argument: that value, or, for an argument array, its elements in order
Forwarded(cfg) == {<<cfg>>} \cup (IF cfg.t = "array" THEN {Spread(cfg)} ELSE {})

\* C13: a configuration given as the fourth constructor argument reaches the router's
\* constructor after (state handle, environment, resolved name), nothing added, dropped
\* or reordered; when it is omitted the router is constructed with no configuration.
C13_ConfigVerbatim ==
    \A u \in Units :
        LET o == units[u] IN
        (o.class = "BaseDurableObject" /\ o.pc # "none") =>
            /\ o.router \in 1..Len(routers)
            /\ LET r == routers[o.router] IN
               /\ r.ctx = o.argCtx
               /\ r.env = o.argEnv
               /\ r.name = ResolveName(o.argName)
               /\ o.argCfg # CfgOmitted => r.extra \in Forwarded(o.argCfg)
               /\ o.argCfg = CfgOmitted => r.extra \in {<<>>, <<CfgOmitted>>}

\* the storage key a request's handler writes, '' when it writes none
WrittenKey(req) ==
    IF req.path = CountPath /\ req.method \in {"POST", "DELETE"} THEN "count"
    ELSE IF OwnHandler(req.path) = "StateHandler" /\ req.method = "PUT" THEN req.path[2]
    ELSE ""

\* C14: this layer never touches storage itself: constructing a unit leaves storage
\* unchanged; a fetch changes storage only in its router's dispatch, only when a route
\* handler was reached, and then only the key that handler writes, of the unit's own
\* identity; a fetch for an unmatched route or of a GET leaves every stored key unchanged.
C14_StorageFrame ==
    [][ /\ (\E u \in Units : units[u].pc = "none" /\ units'[u].pc # "none") =>
               storage' = storage
        /\ storage' # storage =>
               /\ call.pc = "dispatched"
               /\ call'.pc = "handled"
               /\ call'.reached # ""
               /\ call'.reached = OwnHandler(call.req.path)
               /\ WrittenKey(call.req) # ""
               /\ \A i \in Ids, k \in Keys :
                      (i # CallId \/ k # WrittenKey(call.req)) =>
                          storage'[i][k] = storage[i][k]
        /\ ( /\ call.pc = "dispatched"
             /\ call'.pc = "handled"
             /\ (OwnHandler(call.req.path) = "" \/ call.req.method = "GET") ) =>
               storage' = storage ]_vars

\* after a PUT and a POST, a GET /state/k has been served and both stored keys are
\* what the PUT and the POST left
C14_Witness ==
    /\ call.pc = "returned"
    /\ call.req = Req("GET", StatePath("k"), NoBody)
    /\ call.result.status = 200
    /\ storage[CallId] = [count |-> Num(1), k |-> Str("v")]

\* the calls made concurrently that have been started
Started == 1..Len(calls)

\* C15: every fetch call starts exactly one router dispatch, at once and without
\* waiting for earlier fetch calls: at every moment as many dispatches have been
\* started as fetch calls; a failed dispatch is not retried; and a fetch is pending
\* for as long as its dispatch is, settling only with what the dispatch settled with
\* (no timeout, no synthesized response).
C15_OneDispatchPerFetch ==
    /\ dispatches = fetches
    /\ Len(calls) = fetches
    /\ \A c \in Started :
           /\ calls[c].passed = calls[c].req
           /\ calls[c].pc \in {"dispatched", "read", "handled"} =>
                  calls[c].result = NoStub
           /\ calls[c].pc = "returned" =>
                  /\ calls[c].outcome # NoStub
                  /\ calls[c].result = calls[c].outcome
    /\ \A u \in Units :
           (Ready(u) /\ Len(calls) < MaxCalls) =>
               ENABLED StartFetch(u, Req("GET", CountPath, NoBody))

\* a second fetch was dispatched while the first was still pending, the first then
\* failed (its POST has no JSON body) and returned the error, and there were two
\* dispatches in all for the two calls
C15_Witness ==
    /\ Len(calls) = 2
    /\ calls[1].req = Req("POST", CountPath, NoBody)
    /\ calls[1].pc = "returned"
    /\ calls[1].result.status = 500
    /\ calls[2].overlap
    /\ calls[2].pc = "dispatched"
    /\ dispatches = 2

\* the router serves a request to /state/<key> of the unit's identity
StateStep ==
    /\ call.pc = "dispatched"
    /\ call'.pc = "handled"
    /\ OwnHandler(call.req.path) = "StateHandler"

\* no PUT /state/<k> and, for the counter's key, no POST /count was served: k was
\* never stored
NeverStored(k) ==
    /\ lastPut[CallId][k] = Undefined
    /\ k = "count" => lastPost[CallId] = Num(0)

\* a step of the state handler as C16 describes it, for the keys in scope; a GET
\* after a PUT of v is due read(v)
RoundTripStep(inScope(_), read(_)) ==
    StateStep =>
        LET k == call.req.path[2]
            v == lastPut[CallId][k]
        IN  /\ (call.req.method = "PUT" /\ call.req.body.json) =>
                   /\ call'.outcome =
                          Response(200, "stored", Undefined, k, call.req.body.value, "")
                   /\ lastPut'[CallId][k] = call.req.body.value
            /\ (call.req.method = "GET" /\ inScope(k)) =>
                   /\ storage' = storage
                   /\ v # Undefined =>
                          call'.outcome = Response(200, "state", Undefined, k, read(v), "")
                   /\ NeverStored(k) =>
                          call'.outcome = Response(200, "state", Undefined, k, Null, "")

AnyKey(k) == TRUE
OtherThanCount(k) == k # "count"
\* the value last PUT, as it was PUT
AsPut(v) == v
\* the value last PUT when it is truthy, null when it is falsy
TruthyOrNull(v) == Or(v, Null)

\* C16 as stated: for every key k and value v, a PUT /state/k of v answers key k, value
\* v, stored true, and each GET /state/k returns key k and value v until the next PUT
\* to k; a GET of a key never stored returns 200 with value null.
C16_Original == [][RoundTripStep(AnyKey, AsPut)]_vars

\* C16, amended: the same for every key other than the counter's key 'count' and every
\* truthy value v; a falsy v (the empty string) is answered by the PUT but read as null.
C16_StateRoundTrip == [][RoundTripStep(OtherThanCount, TruthyOrNull)]_vars

\* PUT /state/k 'v', a request to the counter, then GET /state/k: it has returned 'v'
C16_Witness ==
    /\ call.pc = "returned"
    /\ call.req = Req("GET", StatePath("k"), NoBody)
    /\ call.result = Response(200, "state", Undefined, "k", Str("v"), "")
    /\ lastPut[CallId]["k"] = Str("v")
    /\ lastPost[CallId] = Num(2)

\* what clients can observe of a unit: the answers its router gives to the GET requests
Observations == {Req("GET", CountPath, NoBody)}
                    \cup {Req("GET", StatePath(k), NoBody) : k \in Keys}
Observed(router, store) ==
    [req \in Observations |-> HandleOutcomes(router, req, store)]

\* no write has been served to identity i
NeverWritten(i) ==
    /\ lastPost[i] = Num(0)
    /\ resets[i] = 0
    /\ ~putCount[i]
    /\ lastPut[i] = EmptyStore

\* C17: identities are isolated: a request for an identity is served by that identity's
\* unit on that identity's storage; a step taken for one identity changes no stored key
\* and no observable answer of another; and an identity no write was ever served to,
\* a never-used one included, answers GET /count with count 0.
C17_IdentitiesIsolated ==
    [][ /\ \A u \in Units :
               units'[u].pc = "ready" =>
                   /\ units'[u].ctx = UnitId(u)
                   /\ routers'[units'[u].router].ctx = UnitId(u)
        /\ (call.pc = "dispatched" /\ call'.pc = "handled") =>
               /\ \A i \in Ids \ {UnitId(call.unit)} : storage'[i] = storage[i]
               /\ \A v \in Units \ {call.unit} :
                      Ready(v) =>
                          Observed(routers'[units'[v].router], storage'[UnitId(v)])
                              = Observed(RouterOf(v), storage[UnitId(v)])
               /\ ( /\ call.req = Req("GET", CountPath, NoBody)
                    /\ NeverWritten(UnitId(call.unit)) ) =>
                      call'.outcome = Response(200, "count", Num(0), "", Undefined, "")
      ]_vars

\* after the first identity's count was raised to 2, the second identity, never used
\* before, has answered GET /count with 0
C17_Witness ==
    /\ call.pc = "returned"
    /\ call.unit = 2
    /\ call.req = Req("GET", CountPath, NoBody)
    /\ call.result = Response(200, "count", Num(0), "", Undefined, "")
    /\ storage["id1"]["count"] = Num(2)
    /\ storage["id2"] = EmptyStore

\* the increment call c applied: body.increment || 1 of a POST /count that was served
Applied(c) ==
    IF /\ calls[c].req.method = "POST"
       /\ calls[c].req.path = CountPath
       /\ calls[c].outcome.status = 200
    THEN Or(calls[c].req.body.increment, Num(1)).n
    ELSE 0

RECURSIVE SumApplied(_)
\* the sum of the increments the first n calls applied
SumApplied(n) == IF n = 0 THEN 0 ELSE SumApplied(n - 1) + Applied(n)

\* every call made has completed, and no DELETE was among them
AllCompleted == \A c \in Started : calls[c].pc = "returned"
NoDelete == \A c \in Started : calls[c].req.method # "DELETE"
\* each call was made after the calls before it had completed
OneAtATime == \A c \in Started : ~calls[c].overlap

\* the count the worker's identity stores, read as the counter reads it
StoredCount == Or(storage[UnitId(WorkerUnit)]["count"], Num(0))

\* C18 as stated: once every POST /count of a set sent to one identity has completed,
\* no DELETE among them, the stored count is the count before them (0) plus the sum of
\* the increments applied, however the handlers' storage reads and writes interleaved.
C18_Original ==
    (AllCompleted /\ NoDelete) => StoredCount = Num(SumApplied(Len(calls)))

\* C18, amended: the same when the requests were served one at a time, each fetch call
\* made after the calls before it had completed.
C18_NoLostIncrement ==
    (AllCompleted /\ NoDelete /\ OneAtATime) => StoredCount = Num(SumApplied(Len(calls)))

\* two POSTs served one after the other, of increments 2 and 1: the count is 3
C18_Witness ==
    /\ Len(calls) = 2
    /\ AllCompleted
    /\ OneAtATime
    /\ calls[1].req = Req("POST", CountPath, IncBody(Num(2)))
    /\ calls[2].req = Req("POST", CountPath, IncBody(Undefined))
    /\ calls[2].result.count = Num(3)
    /\ StoredCount = Num(3)

\* the instance and the router a first activation of slot u's identity gives
FirstActivation(u) ==
    Finish(TestCtor([obj |-> NewObject("TestDurableObject", UnitId(u), "fatal",
                                       Str("test-do"), CfgOmitted),
                     heap |-> <<>>],
                    UnitId(u), "fatal"))

\* the host evicts a unit, or constructs one
EvictionStep == \E u \in Units : units[u].pc = "ready" /\ units'[u].pc = "none"
ActivationStep == \E u \in Units : units[u].pc = "none" /\ units'[u].pc = "ready"

\* C19: the unit keeps no request-derived state in memory, so an eviction and a fresh
\* construction between two requests change no later response: whatever was served
\* and however often the unit was evicted, the instance in memory and its router are
\* those a first activation gives, but for the router's address; evictions and
\* constructions leave storage alone; and the counter, the stored state values and
\* unknown routes answer by the history of the identity's requests alone.
C19_EvictionUnobservable ==
    [][ /\ \A u \in Units :
               units'[u].pc = "ready" =>
                   /\ [units'[u] EXCEPT !.router = 1] = FirstActivation(u).obj
                   /\ routers'[units'[u].router] = FirstActivation(u).heap[1]
        /\ (EvictionStep \/ ActivationStep) =>
               /\ storage' = storage
               /\ <<lastPost, resets, putCount, lastPut>>' =
                      <<lastPost, resets, putCount, lastPut>>
        /\ CounterStep(TRUE)
        /\ ResetStep(TRUE)
        /\ RoundTripStep(OtherThanCount, TruthyOrNull)
        /\ ( /\ call.pc = "dispatched"
             /\ call'.pc = "handled"
             /\ OwnHandler(call.req.path) = "" ) => call'.outcome = NotFound
      ]_vars

\* POST 2 to the first activation, eviction, GET /count to the second: it returned 2
C19_Witness ==
    /\ Len(routers) = 2
    /\ units[WorkerUnit].router = 2
    /\ call.pc = "returned"
    /\ call.req = Req("GET", CountPath, NoBody)
    /\ call.result = Response(200, "count", Num(2), "", Undefined, "")
    /\ lastPost[CallId] = Num(2)

\* the amount C20 says a POST adds: its increment when that is a non-zero number, else 1
PostAmount(req) ==
    IF req.body.increment.t = "number" /\ req.body.increment.n # 0
    THEN req.body.increment.n
    ELSE 1

\* the stored count is absent or 0
AbsentOrZero(v) == v \in {Undefined, Num(0)}

AnyPost(req, stored) == TRUE
\* the POST has a JSON body and the stored count is a number or absent
JsonOnNumber(req, stored) == req.body.json /\ stored.t \in {"undefined", "number"}

\* a step of the counter as C20 describes it, for the POSTs in scope
IncrementStep(inScope(_, _)) ==
    CountStep =>
        LET stored == storage[CallId]["count"]
            asRead == IF AbsentOrZero(stored) THEN 0 ELSE stored.n
        IN  /\ (call.req.method = "POST" /\ inScope(call.req, stored)) =>
                   /\ call'.outcome = Response(200, "count",
                                               Num(asRead + PostAmount(call.req)),
                                               "", Undefined, "")
                   /\ storage'[CallId]["count"] = call'.outcome.count
                   /\ storage'[CallId]["count"] # stored
            /\ (call.req.method = "GET" /\ AbsentOrZero(stored)) =>
                   call'.outcome = Response(200, "count", Num(0), "", Undefined, "")

\* C20 as stated: a POST /count adds the body's increment when that is a non-zero
\* number and 1 otherwise (no increment field, increment 0), so no POST leaves the
\* count unchanged; and a stored count of 0 is read the same as an absent one.
C20_Original == [][IncrementStep(AnyPost)]_vars

\* C20, amended: the same for every POST whose body is JSON with an increment that is
\* a number or absent, made while the stored count is a number or absent.
C20_IncrementOrOne == [][IncrementStep(JsonOnNumber)]_vars

\* the third request, a POST of increment 0, has answered 1 and stored 1: it added 1
\* to a count that was absent or a stored 0 (POST, POST -1, POST 0)
C20_Witness ==
    /\ call.pc = "returned"
    /\ call.req = Req("POST", CountPath, IncBody(Num(0)))
    /\ call.result = Response(200, "count", Num(1), "", Undefined, "")
    /\ storage[CallId]["count"] = Num(1)
    /\ lastPost[CallId] = Num(1)
    /\ resets[CallId] = 0
    /\ ~putCount[CallId]
    /\ fetches = 3

\* the answer the unit serving the current call gives to a GET of path, on storage st
AnswerOf(path, st) ==
    {o.outcome : o \in HandleOutcomes(RouterOf(call.unit), Req("GET", path, NoBody), st)}

\* C21: the handlers of one unit share one storage key space: a PUT /state/k changes
\* only the entry k (to the value PUT) and a POST or DELETE /count only the entry
\* 'count'; so for k other than 'count' a /state/k request leaves the answer of
\* GET /count as it was and a /count request leaves the answer of GET /state/k as it
\* was; and a PUT /state/count overwrites the entry GET /count reads: GET /count then
\* answers with the value PUT (0 when that value is falsy).
C21_SharedKeySpace ==
    [][ (call.pc = "dispatched" /\ call'.pc = "handled") =>
            LET id == CallId
                h == OwnHandler(call.req.path)
            IN  /\ (h = "StateHandler" /\ call.req.method = "PUT") =>
                       LET k == call.req.path[2] IN
                       /\ \A j \in Keys \ {k} : storage'[id][j] = storage[id][j]
                       /\ call'.outcome.status = 200 =>
                              storage'[id][k] = call.req.body.value
                       /\ k # "count" =>
                              AnswerOf(CountPath, storage'[id]) = AnswerOf(CountPath, storage[id])
                       /\ (k = "count" /\ call'.outcome.status = 200) =>
                              AnswerOf(CountPath, storage'[id]) =
                                  {Response(200, "count",
                                            Or(call.req.body.value, Num(0)),
                                            "", Undefined, "")}
                /\ (h = "CounterHandler" /\ call.req.method \in {"POST", "DELETE"}) =>
                       /\ \A j \in Keys \ {"count"} : storage'[id][j] = storage[id][j]
                       /\ \A j \in Keys \ {"count"} :
                              AnswerOf(StatePath(j), storage'[id]) =
                                  AnswerOf(StatePath(j), storage[id])
      ]_vars

\* after a POST raised the count to 2 and a PUT /state/count stored 'v' over it, with
\* the entry k untouched, GET /count has returned 'v'
C21_Witness ==
    /\ call.pc = "returned"
    /\ call.req = Req("GET", CountPath, NoBody)
    /\ call.result = Response(200, "count", Str("v"), "", Undefined, "")
    /\ lastPost[CallId] = Num(2)
    /\ lastPut[CallId] = [count |-> Str("v"), k |-> Undefined]
    /\ storage[CallId] = [count |-> Str("v"), k |-> Undefined]

\* what a construction leaves, but for the configuration's shape and the logging: the
\* outcome, the instance's fields, the number of routers built, and what the router
\* was constructed with
Core(st) ==
    [pc |-> st.obj.pc, fault |-> st.obj.fault,
     ctx |-> st.obj.ctx, env |-> st.obj.env, name |-> st.obj.name,
     routers |-> Len(st.heap),
     routerCtx |-> st.heap[st.obj.router].ctx,
     routerEnv |-> st.heap[st.obj.router].env,
     routerName |-> st.heap[st.obj.router].name,
     routes |-> st.heap[st.obj.router].routes]

\* C22: the two builds of the base class agree in everything but the configuration's
\* shape and the logging: from the same state handle, environment and name and no
\* configuration each constructs one router, with that state handle, that environment
\* and the same resolved name, and leaves the same instance; the deployed build's unit
\* is that instance; and in either build a fetch passes on the request and returns
\* exactly what the router's dispatch settled with.
C22_VariantsEquivalent ==
    /\ \A u \in Units :
           LET o == units[u]
               st0 == [obj |-> NewObject(o.class, o.argCtx, o.argEnv, o.argName, o.argCfg),
                       heap |-> <<>>]
               A == Finish(BaseCtorArgs(st0, o.argCtx, o.argEnv, o.argName, o.argCfg))
               O == Finish(BaseCtorOptions(st0, o.argCtx, o.argEnv, o.argName, o.argCfg))
           IN  (o.class = "BaseDurableObject" /\ o.argCfg = CfgOmitted) =>
                   /\ Core(A) = Core(O)
                   /\ Core(A).pc = "ready"
                   /\ Core(A).routers = 1
                   /\ Core(A).routerCtx = o.argCtx
                   /\ Core(A).routerEnv = o.argEnv
                   /\ Core(A).routerName = ResolveName(o.argName)
                   /\ Core([obj |-> [o EXCEPT !.router = 1],
                            heap |-> <<RouterOf(u)>>]) = Core(A)
    /\ Dispatched => call.passed = call.req
    /\ call.pc = "returned" => call.result = call.outcome

\* the options build, constructed from (state, env) alone, its router named 'unnamed',
\* has returned the response its router's dispatch settled with
C22_Witness ==
    /\ variant = "options"
    /\ call.pc = "returned"
    /\ units[call.unit].argName = Undefined
    /\ units[call.unit].argCfg = CfgOmitted
    /\ RouterOf(call.unit).name = Str("unnamed")
    /\ call.result = Response(200, "stub", Undefined, "", Str("test response"), "")

\* the trace message of a unit with the given identity and router name
Initialized(id, name) == [msg |-> "Durable Object initialized", id |-> id, name |-> name]

\* C23: in the build that logs, a constructed unit's constructor emitted the trace
\* message 'Durable Object initialized' exactly once, after creating the router and
\* before every route registration; the message carries the unit's identity and the
\* name the router was constructed with, 'unnamed' when none was supplied; and no step
\* of a fetch call adds a message to any router's log.
C23_InitializedOnce ==
    /\ [](variant = "options" =>
           \A u \in Units :
               LET e == units[u].events IN
               Ready(u) =>
                   /\ Cardinality(Positions(e, "trace")) = 1
                   /\ \A i \in Positions(e, "trace") :
                          /\ \A j \in Positions(e, "router") : j < i
                          /\ \A j \in Positions(e, "route") : i < j
                   /\ RouterOf(u).log = <<Initialized(UnitId(u), RouterOf(u).name)>>
                   /\ RouterOf(u).name = ResolveName(units[u].argName)
                   /\ IsNullish(units[u].argName) => RouterOf(u).name = Str("unnamed"))
    /\ [][(variant = "options" /\ call' # call) =>
              /\ Len(routers') = Len(routers)
              /\ \A i \in 1..Len(routers) : routers'[i].log = routers[i].log
              /\ \A u \in Units : units'[u].events = units[u].events]_vars

\* both units of the logging build are constructed, the base-class one without a name
\* and the fixture one with its three routes after the message, and a fetch has
\* returned with each log still holding its one message
C23_Witness ==
    /\ variant = "options"
    /\ call.pc = "returned"
    /\ units[1].argName = Undefined
    /\ Ready(1) /\ Ready(2)
    /\ RouterOf(1).log = <<Initialized("id1", Str("unnamed"))>>
    /\ RouterOf(2).log = <<Initialized("id2", Str("test-do"))>>
    /\ units[2].events = <<"platform", "router", "trace", "route", "route", "route">>

====
